---- MODULE Spec2Model ----
(***************************************************************************)
(* Task prioritisation and claiming engine of the "AI Co-Founder OS"      *)
(* backend (src/main.py, src/schemas.py): the task and message            *)
(* collections, the request handlers create_task, next_task,              *)
(* update_task_status and create_message, and the pure helpers they use.  *)
(* Each handler is one action; `last` records the request that was        *)
(* handled last and the response it got.  Where requests run              *)
(* concurrently, next_task is also modelled step by step, one step per    *)
(* store access; `calls` holds those requests.                            *)
(***************************************************************************)
EXTENDS Integers, Sequences, FiniteSets, TLC

VARIABLES
    tasks,      \* the "task" collection: documents in insertion order
    messages,   \* the "message" collection: documents in insertion order
    last,       \* the last request handled: handler, arguments, response
    calls       \* next_task requests handled step by step, in order of
                \* arrival: position, what was read, the response

vars == <<tasks, messages, last, calls>>

----------------------------------------------------------------------------
(* Bounds of the model *)

MaxTasks == 3
MaxStatusTasks == 2
MaxMsgs == 2

----------------------------------------------------------------------------
(* Python values *)

\* Python's None; it prints as the text "None"
NONE == "<None>"

\* truthiness of an Optional[str]: None and "" are falsy
Truthy(v) == v # NONE /\ v # ""

\* str(v) of an Optional[str], as an f-string renders it
PyStr(v) == IF v = NONE THEN "None" ELSE v

\* dict.get(key, default): the default is used only when the key is missing
Get(d, key, default) == IF key \in DOMAIN d THEN d[key] ELSE default

\* dict.get(key): None when the key is missing
GetOrNone(d, key) == Get(d, key, NONE)

----------------------------------------------------------------------------
(* ObjectId: 24 hexadecimal digits *)

OidLen == 24

HexLower == <<"0", "1", "2", "3", "4", "5", "6", "7",
              "8", "9", "a", "b", "c", "d", "e", "f">>

HexUpper == <<"0", "1", "2", "3", "4", "5", "6", "7",
              "8", "9", "A", "B", "C", "D", "E", "F">>

HexChars == {HexLower[k] : k \in 1..16} \cup {HexUpper[k] : k \in 1..16}

\* the value of each hexadecimal digit, in either case
HexValues ==
    [c \in HexChars |->
        (CHOOSE k \in 1..16 : HexLower[k] = c \/ HexUpper[k] = c) - 1]

IsHex(c) == c \in HexChars

HexVal(c) == HexValues[c]

\* ObjectId.is_valid for a str: exactly 24 hexadecimal digits
OidValid(s) == Len(s) = OidLen /\ \A i \in 1..Len(s) : IsHex(s[i])

RECURSIVE OidValue(_, _)
OidValue(s, n) == IF n = 0 THEN 0 ELSE OidValue(s, n - 1) * 16 + HexVal(s[n])

\* ObjectId(s) for a valid s: the identity the digits denote
ObjectId(s) == OidValue(s, Len(s))

RECURSIVE Pow16(_)
Pow16(k) == IF k = 0 THEN 1 ELSE 16 * Pow16(k - 1)

\* the digits of the low places; the higher places of the identities of the
\* model are all zero
LowPlaces == 2

\* str(oid): 24 lower-case hexadecimal digits
to_str_id(oid) ==
    [i \in 1..OidLen |->
        IF OidLen - i < LowPlaces
        THEN HexLower[((oid \div Pow16(OidLen - i)) % 16) + 1]
        ELSE "0"]

----------------------------------------------------------------------------
(* Helpers of main.py *)

\* serialize_doc: "_id" leaves, "id" = str(_id) enters; other fields stay
serialize_doc(doc) ==
    [k \in (DOMAIN doc \ {"_id"}) \cup {"id"} |->
        IF k = "id" THEN to_str_id(doc["_id"]) ELSE doc[k]]

score_task_effort_5(t) ==
    LET impact == Get(t, "impact", 5)
        effort == Get(t, "effort", 5)
        urgency == Get(t, "urgency", 5)
    IN (impact * 2) + urgency - effort

score_task(t) ==
    LET impact == Get(t, "impact", 5)
        effort == Get(t, "effort", 3)
        urgency == Get(t, "urgency", 5)
    IN (impact * 2) + urgency - effort

\* SortedDesc with equal keys in the reverse of the order they have in seq
SortedDesc_reversed(seq, keys) ==
    LET n == Len(seq)
        rank(i) == Cardinality({j \in 1..n :
                        \/ keys[j] > keys[i]
                        \/ keys[j] = keys[i] /\ j > i}) + 1
    IN [r \in 1..n |-> seq[CHOOSE i \in 1..n : rank(i) = r]]

\* sorted(seq, key=..., reverse=True), keys[i] being the key of seq[i]:
\* descending and stable, so elements with equal keys keep the order they
\* have in seq
SortedDesc(seq, keys) ==
    LET n == Len(seq)
        rank(i) == Cardinality({j \in 1..n :
                        \/ keys[j] > keys[i]
                        \/ keys[j] = keys[i] /\ j < i}) + 1
    IN [r \in 1..n |-> seq[CHOOSE i \in 1..n : rank(i) = r]]

\* seq[:k]
Take(seq, k) == SubSeq(seq, 1, IF Len(seq) < k THEN Len(seq) ELSE k)

----------------------------------------------------------------------------
(* The document store (database.py, pymongo) *)

FirstId == 10

\* the identity insert_one gives the next document of a collection
NewId(coll) == FirstId + Len(coll)

\* create_document: the document is stored under a generated identity
create_document(coll, doc) ==
    Append(coll, [k \in DOMAIN doc \cup {"_id"} |->
                    IF k = "_id" THEN NewId(coll) ELSE doc[k]])

\* the orders in which the members of a set can come
RECURSIVE Orders(_)
Orders(S) ==
    IF S = {} THEN {<<>>}
    ELSE UNION {{<<x>> \o rest : rest \in Orders(S \ {x})} : x \in S}

\* an equality filter over named fields; the empty filter matches all
Matches(d, filter) ==
    \A k \in DOMAIN filter : k \in DOMAIN d /\ d[k] = filter[k]

NoFilter == <<>>

\* get_documents: every document the filter matches, in an order the store
\* chooses; the set of the sequences a read may return
get_documents(coll, filter) ==
    LET hit == {i \in 1..Len(coll) : Matches(coll[i], filter)}
    IN {[k \in 1..Len(f) |-> coll[f[k]]] : f \in Orders(hit)}

\* update_one that leaves a document alone once it is claimed
update_one_unclaimed(coll, oid, fields) ==
    [i \in 1..Len(coll) |->
        IF coll[i]["_id"] = oid
           /\ ("assignee" \notin DOMAIN fields \/ coll[i].status = "backlog")
        THEN [k \in DOMAIN coll[i] \cup DOMAIN fields |->
                IF k \in DOMAIN fields THEN fields[k] ELSE coll[i][k]]
        ELSE coll[i]]

\* update_one without the filter on the identity: every document is written
update_many(coll, oid, fields) ==
    [i \in 1..Len(coll) |->
        [k \in DOMAIN coll[i] \cup DOMAIN fields |->
            IF k \in DOMAIN fields THEN fields[k] ELSE coll[i][k]]]

\* update_one({"_id": oid}, {"$set": fields}): the first document with that
\* identity gets the fields overwritten; the others stay
update_one(coll, oid, fields) ==
    [i \in 1..Len(coll) |->
        IF coll[i]["_id"] = oid
        THEN [k \in DOMAIN coll[i] \cup DOMAIN fields |->
                IF k \in DOMAIN fields THEN fields[k] ELSE coll[i][k]]
        ELSE coll[i]]

\* matched_count that never reports a miss
matched_always(coll, oid) == 1

matched_count(coll, oid) ==
    IF \E i \in 1..Len(coll) : coll[i]["_id"] = oid THEN 1 ELSE 0

----------------------------------------------------------------------------
(* Request models (schemas.py, main.py) *)

Domains == {"product", "growth", "sales", "ops", "finance", "people",
            "legal", "data", "research", "general"}

Statuses == {"backlog", "in_progress", "done", "blocked"}

\* the defaults of the fields of Task
TaskDefaults ==
    [description |-> NONE, domain |-> "general", impact |-> 5, effort |-> 3,
     urgency |-> 5, status |-> "backlog", assignee |-> NONE]

TaskFields == DOMAIN TaskDefaults \cup {"title"}

\* Task(**raw) validates: title is required, the three numbers are in 1..10,
\* domain is one of the literals or None, status is one of the literals
TaskValid(raw) ==
    /\ DOMAIN raw \subseteq TaskFields
    /\ "title" \in DOMAIN raw /\ raw.title # NONE
    /\ Get(raw, "domain", "general") \in Domains \cup {NONE}
    /\ Get(raw, "impact", 5) \in 1..10
    /\ Get(raw, "effort", 3) \in 1..10
    /\ Get(raw, "urgency", 5) \in 1..10
    /\ Get(raw, "status", "backlog") \in Statuses

\* payload.model_dump(): every field, the default where the request has none
TaskDump(raw) ==
    [k \in TaskFields |-> IF k \in DOMAIN raw THEN raw[k] ELSE TaskDefaults[k]]

\* MessageCreate: sender and text are any str, user_email defaults to None,
\* topic to "general"
MessageDump(raw) ==
    [sender |-> raw.sender, text |-> raw.text,
     user_email |-> Get(raw, "user_email", NONE),
     topic |-> Get(raw, "topic", "general")]

----------------------------------------------------------------------------
(* Handlers *)

\* POST /api/tasks
create_task(raw, max) ==
    /\ Len(tasks) < max
    /\ IF TaskValid(raw)
       THEN /\ tasks' = create_document(tasks, TaskDump(raw))
            /\ last' = [op |-> "create_task", code |-> 200,
                        id |-> to_str_id(NewId(tasks))]
       ELSE /\ tasks' = tasks
            /\ last' = [op |-> "create_task", code |-> 422]
    /\ UNCHANGED <<messages, calls>>

\* pref_score without the bonuses: the plain score
pref_score_plain(t, user_email) == score_task(t)

pref_score(t, user_email) ==
    LET s0 == score_task(t)
        s1 == IF Truthy(user_email) /\ GetOrNone(t, "assignee") = user_email
              THEN s0 + 5 ELSE s0
    IN IF ~Truthy(GetOrNone(t, "assignee")) THEN s1 + 2 ELSE s1

\* the candidate a pool yields: the head of the pool sorted by pref_score
Best(pool, user_email) ==
    SortedDesc(pool, [i \in 1..Len(pool) |-> pref_score(pool[i], user_email)])[1]

\* Claims without the test of the status
Claims_any_status(best, user_email) == Truthy(user_email)

\* Claims without the test of user_email
Claims_any_caller(best, user_email) == GetOrNone(best, "status") = "backlog"

\* whether next_task claims the candidate
Claims(best, user_email) ==
    Truthy(user_email) /\ GetOrNone(best, "status") = "backlog"

\* ClaimFields without the status
ClaimFields_assignee_only(user_email) == [assignee |-> user_email]

\* ClaimFields without the assignee
ClaimFields_status_only(user_email) == [status |-> "in_progress"]

ClaimFields(user_email) == [status |-> "in_progress", assignee |-> user_email]

\* BestSer without the overwrite of the claimed fields
BestSer_as_read(best, user_email) ==
    LET ser == serialize_doc(best)
    IN [k \in DOMAIN ser \cup {"score"} |->
            IF k = "score" THEN score_task(best) ELSE ser[k]]

\* the task of the response: serialised, claimed fields overwritten, scored
BestSer(best, user_email) ==
    LET ser == serialize_doc(best)
        over == IF Claims(best, user_email) THEN ClaimFields(user_email) ELSE <<>>
    IN [k \in DOMAIN ser \cup DOMAIN over \cup {"score"} |->
            IF k = "score" THEN score_task(best)
            ELSE IF k \in DOMAIN over THEN over[k] ELSE ser[k]]

NoTasksMessage == "No tasks available. Create one to get started."

\* Pools with the two reads exchanged: blocked tasks first
Pools_blocked_first(coll) ==
    LET blocked == get_documents(coll, [status |-> "blocked"])
    IN IF blocked = {<<>>}
       THEN get_documents(coll, [status |-> "backlog"])
       ELSE blocked

\* the pools next_task may work on: the backlog tasks as read, or, when
\* there are none, the blocked tasks as read
Pools(coll) ==
    LET backlog == get_documents(coll, [status |-> "backlog"])
    IN IF backlog = {<<>>}
       THEN get_documents(coll, [status |-> "blocked"])
       ELSE backlog
FilterQ_none(status) == NoFilter

\* the filter of list_tasks: on the status, if one is given and not empty
FilterQ(status) == IF Truthy(status) THEN [status |-> status] ELSE NoFilter

\* a document as list_tasks returns it: serialised, its score attached
Enriched(doc) ==
    LET d == serialize_doc(doc)
    IN [k \in DOMAIN d \cup {"score"} |->
            IF k = "score" THEN score_task(d) ELSE d[k]]

\* GET /api/tasks
list_tasks(status) ==
    /\ \E docs \in get_documents(tasks, FilterQ(status)) :
          \E enriched \in {[i \in 1..Len(docs) |-> Enriched(docs[i])]} :
             \E keys \in {[i \in 1..Len(docs) |->
                                Get(enriched[i], "score", 0)]} :
                last' = [op |-> "list_tasks", status |-> status,
                         items |-> SortedDesc(enriched, keys)]
    /\ UNCHANGED <<tasks, messages, calls>>

\* GET /api/tasks/next
next_task(user_email) ==
    /\ \E pool \in Pools(tasks) :
         IF pool = <<>>
         THEN /\ tasks' = tasks
              /\ last' = [op |-> "next_task", user_email |-> user_email,
                          task |-> <<>>, message |-> NoTasksMessage]
         ELSE LET best == Best(pool, user_email)
              IN /\ tasks' = IF Claims(best, user_email)
                             THEN update_one(tasks, best["_id"],
                                             ClaimFields(user_email))
                             ELSE tasks
                 /\ last' = [op |-> "next_task", user_email |-> user_email,
                             task |-> <<BestSer(best, user_email)>>]
    /\ UNCHANGED <<messages, calls>>

\* next_task step by step.  A request touches the store in up to three
\* places: the read of the backlog tasks, the read of the blocked tasks and
\* the update that claims the candidate; what lies between them works on
\* the request's own copy of what it read.  A request in calls is
\*   user_email  its parameter
\*   pc          the store access it is to make next, or "done"
\*   pool        the documents of the read it selected from, as returned
\*   writes      the updates it has issued
\*   stamp       the place of its update among the updates of all requests
\*   resp        its response, <<>> until it has one

\* a request that found no backlog task and is to read the blocked ones
Reading(user_email) ==
    [user_email |-> user_email, pc |-> "read_blocked", pool |-> <<>>,
     writes |-> 0, stamp |-> 0, resp |-> <<>>]

\* a request that has its pool: answered at once if it claims nothing,
\* else about to issue the update
Selected(user_email, pool) ==
    IF pool = <<>>
    THEN [user_email |-> user_email, pc |-> "done", pool |-> pool,
          writes |-> 0, stamp |-> 0,
          resp |-> [task |-> <<>>, message |-> NoTasksMessage]]
    ELSE LET best == Best(pool, user_email)
         IN IF Claims(best, user_email)
            THEN [user_email |-> user_email, pc |-> "claim", pool |-> pool,
                  writes |-> 0, stamp |-> 0, resp |-> <<>>]
            ELSE [user_email |-> user_email, pc |-> "done", pool |-> pool,
                  writes |-> 0, stamp |-> 0,
                  resp |-> [task |-> <<BestSer(best, user_email)>>]]

\* the updates issued so far
Updates(cs) == Cardinality({c \in 1..Len(cs) : cs[c].writes > 0})

\* GET /api/tasks/next arrives and reads the backlog tasks
next_task_backlog(user_email, max) ==
    /\ Len(calls) < max
    /\ \E backlog \in get_documents(tasks, [status |-> "backlog"]) :
          calls' = Append(calls, IF backlog = <<>>
                                 THEN Reading(user_email)
                                 ELSE Selected(user_email, backlog))
    /\ UNCHANGED <<tasks, messages, last>>

\* the request reads the blocked tasks
next_task_blocked(c) ==
    /\ calls[c].pc = "read_blocked"
    /\ \E blocked \in get_documents(tasks, [status |-> "blocked"]) :
          calls' = [calls EXCEPT ![c] = Selected(calls[c].user_email, blocked)]
    /\ UNCHANGED <<tasks, messages, last>>

\* the request issues its update and answers
next_task_claim(c) ==
    /\ calls[c].pc = "claim"
    /\ LET user_email == calls[c].user_email
           best == Best(calls[c].pool, user_email)
       IN /\ tasks' = update_one(tasks, best["_id"], ClaimFields(user_email))
          /\ calls' = [calls EXCEPT ![c] =
                         [user_email |-> user_email, pc |-> "done",
                          pool |-> calls[c].pool,
                          writes |-> calls[c].writes + 1,
                          stamp |-> Updates(calls) + 1,
                          resp |-> [task |-> <<BestSer(best, user_email)>>]]]
    /\ UNCHANGED <<messages, last>>

\* POST /api/tasks/{task_id}/status
update_task_status(task_id, status) ==
    /\ IF ~OidValid(task_id)
       THEN /\ tasks' = tasks
            /\ last' = [op |-> "update_task_status",
                        task_id |-> task_id, status |-> status,
                        code |-> 400, detail |-> "Invalid task id"]
       ELSE LET oid == ObjectId(task_id)
            IN /\ tasks' = update_one(tasks, oid, [status |-> status])
               /\ last' = IF matched_count(tasks, oid) = 0
                          THEN [op |-> "update_task_status",
                                task_id |-> task_id, status |-> status,
                                code |-> 404, detail |-> "Task not found"]
                          ELSE [op |-> "update_task_status",
                                task_id |-> task_id, status |-> status,
                                code |-> 200, ok |-> TRUE]
    /\ UNCHANGED <<messages, calls>>

\* the fixed sentences of the reply, written in ASCII
ReplyIntro ==
    "Basierend auf deinem aktuellen Backlog wuerde ich diese Schritte priorisieren:"

ReplyClosing ==
    "Nutze den Button 'Ich bin frei', um dir direkt den naechsten Schritt zuzuweisen."

ReplyFallback ==
    "Ich sehe noch keine Aufgaben. Erstelle 3-5 klare, wirkungsstarke Tasks mit Impact, Effort und Urgency - dann priorisiere ich sie automatisch."

TopN == 3

\* one bullet line, as the pieces the f-string joins
Bullet(t) ==
    <<"- ", PyStr(GetOrNone(t, "title")), " (score ", score_task(t),
      ") -- domain: ", PyStr(Get(t, "domain", "general"))>>

Reply_needs_three(found) ==
    LET keys == [i \in 1..Len(found) |-> score_task(found[i])]
        top == Take(SortedDesc(found, keys), TopN)
        ser == [i \in 1..Len(top) |-> serialize_doc(top[i])]
    IN IF Len(ser) = TopN
       THEN <<ReplyIntro>> \o [i \in 1..Len(ser) |-> Bullet(ser[i])]
                \o <<"", ReplyClosing>>
       ELSE <<ReplyFallback>>

\* the reply for the tasks as read: its lines
Reply(found) ==
    LET keys == [i \in 1..Len(found) |-> score_task(found[i])]
        top == Take(SortedDesc(found, keys), TopN)
        ser == [i \in 1..Len(top) |-> serialize_doc(top[i])]
    IN IF ser # <<>>
       THEN <<ReplyIntro>> \o [i \in 1..Len(ser) |-> Bullet(ser[i])]
                \o <<"", ReplyClosing>>
       ELSE <<ReplyFallback>>

\* the "message" collection after create_message stored the submitted
\* message and the reply composed from the tasks as read
MessagesAfter(coll, found, raw) ==
    LET payload == MessageDump(raw)
        stored == create_document(coll, payload)
        ai_msg == [sender |-> "ai", text |-> Reply(found),
                   user_email |-> payload.user_email,
                   topic |-> IF Truthy(payload.topic)
                             THEN payload.topic ELSE "general"]
    IN create_document(stored, ai_msg)

\* POST /api/messages
create_message(raw) ==
    /\ Len(messages) + 2 <= MaxMsgs
    /\ \E found \in get_documents(tasks, NoFilter) :
          messages' = MessagesAfter(messages, found, raw)
    /\ last' = [op |-> "create_message", payload |-> raw,
                code |-> 200, ok |-> TRUE]
    /\ UNCHANGED <<tasks, calls>>

----------------------------------------------------------------------------
(* Requests the model sends *)

\* callers of next_task: no identity, the empty identity, a user
Callers == {NONE, "", "u"}

\* task payloads of Spec: two backlog tasks of score 10, one unassigned and
\* one held by the caller; a backlog task of score 12 held by another user,
\* with a null domain; two blocked tasks, one with an empty assignee; a
\* finished task; an impact out of range, which validation rejects
RawTasks ==
    {[title |-> "A", impact |-> 4],
     [title |-> "B", impact |-> 4, assignee |-> "u"],
     [title |-> "C", assignee |-> "v", domain |-> NONE],
     [title |-> "D", status |-> "blocked", assignee |-> ""],
     [title |-> "E", status |-> "blocked", impact |-> 6, assignee |-> "u"],
     [title |-> "F", status |-> "done"],
     [title |-> "G", impact |-> 11]}

\* task payloads of SpecStatus
RawStatusTasks ==
    {[title |-> "A", description |-> "first"],
     [title |-> "B", impact |-> 6, assignee |-> "v", domain |-> NONE,
      status |-> "in_progress"],
     [title |-> "E", status |-> "archived"]}

\* the upper-case spelling of an identity
UpperId(s) == [i \in 1..Len(s) |-> HexUpper[HexVal(s[i]) + 1]]

\* task ids of requests: the identities the store can hold and one more,
\* every other one spelt in upper case; 24 characters that are not all
\* hexadecimal; too few characters
TaskIds ==
    {IF n % 2 = 0 THEN to_str_id(n) ELSE UpperId(to_str_id(n)) :
        n \in FirstId..(FirstId + MaxStatusTasks)}
    \cup {[i \in 1..OidLen |-> IF i = OidLen THEN "g" ELSE "0"],
          <<"1", "0">>}

\* TaskStatusUpdate.status is any str
NewStatuses == {"backlog", "blocked", "done", "archived"}

\* message payloads: topic given, null or empty with a user_email, or both
\* left out
RawMessages ==
    [sender : {"user"}, text : {"hello"}, user_email : {"u"},
     topic : {NONE, "", "growth"}]
    \cup [sender : {"user", "ai"}, text : {"hello"}]

\* task payloads of SpecChat: equal scores, a null domain, several statuses
RawChatTasks ==
    {[title |-> "A"],
     [title |-> "B", impact |-> 6, domain |-> NONE, status |-> "done"],
     [title |-> "C", urgency |-> 7, domain |-> "growth", status |-> "blocked"]}

MaxChatTasks == 4

----------------------------------------------------------------------------
(* Spec: creating and selecting tasks. The message collection is empty or *)
(* holds one conversation, submitted before any task existed.             *)

SeedMessage == [sender |-> "user", text |-> "hello", user_email |-> "u"]

Init ==
    /\ tasks = <<>>
    /\ messages \in {<<>>, MessagesAfter(<<>>, <<>>, SeedMessage)}
    /\ last = [op |-> "init"]
    /\ calls = <<>>

CreateTask == \E raw \in RawTasks : create_task(raw, MaxTasks)

NextTask == \E user_email \in Callers : next_task(user_email)

Next == CreateTask \/ NextTask

Spec == Init /\ [][Next]_vars

----------------------------------------------------------------------------
(* Properties of next_task, under Spec *)

\* the stored tasks of a status
WithStatus(coll, st) == {i \in 1..Len(coll) : coll[i].status = st}

\* the place in the collection of the task a response returned
PlaceOf(coll, ser) ==
    LET oid == ObjectId(ser.id)
    IN CHOOSE i \in 1..Len(coll) : coll[i]["_id"] = oid

Returned(l) == l.op = "next_task" /\ l.task # <<>>

\* a caller identity is given: the parameter is present and not empty
Given(u) == u # NONE /\ u # ""

\* C1: next_task returns a task that was read as backlog whenever the store
\* holds a backlog task; a task read as blocked is returned only when the
\* store holds no backlog task; no task is returned only when it holds
\* neither.
C1_BacklogBeforeBlocked ==
    [][last'.op = "next_task" =>
        IF last'.task = <<>>
        THEN WithStatus(tasks, "backlog") \cup WithStatus(tasks, "blocked") = {}
        ELSE /\ \E i \in 1..Len(tasks) :
                    to_str_id(tasks[i]["_id"]) = last'.task[1].id
             /\ \A i \in {PlaceOf(tasks, last'.task[1])} :
                   /\ tasks[i].status \in {"backlog", "blocked"}
                   /\ WithStatus(tasks, "backlog") # {}
                        => tasks[i].status = "backlog"
                   /\ tasks[i].status = "blocked"
                        => WithStatus(tasks, "backlog") = {}
    ]_vars

\* a call without identity returned a backlog task while a blocked task of a
\* higher score was stored
C1_Witness ==
    /\ Returned(last) /\ last.user_email = NONE
    /\ last.task[1].status = "backlog"
    /\ \E i \in WithStatus(tasks, "blocked") :
          score_task(tasks[i]) > last.task[1].score

\* C2: when next_task with caller identity u selects a task whose stored
\* status is backlog, the stored task afterwards has status in_progress and
\* assignee u, and so has the task of the response.
C2_ClaimStored ==
    [][(Returned(last') /\ Given(last'.user_email)) =>
        \A i \in {PlaceOf(tasks, last'.task[1])} :
            tasks[i].status = "backlog" =>
                /\ tasks'[i].status = "in_progress"
                /\ tasks'[i].assignee = last'.user_email
                /\ tasks'[i]["_id"] = tasks[i]["_id"]
                /\ last'.task[1].status = "in_progress"
                /\ last'.task[1].assignee = last'.user_email
    ]_vars

\* caller u was given the backlog task that was held by v
C2_Witness ==
    /\ Returned(last) /\ last.user_email = "u"
    /\ last.task[1].title = "C"
    /\ last.task[1].status = "in_progress"
    /\ \E i \in 1..Len(tasks) :
          /\ tasks[i].title = "C" /\ tasks[i].assignee = "u"
          /\ tasks[i].status = "in_progress"

\* the preference of the claim: the score, 5 more for the caller's own task,
\* 2 more for a task nobody holds
Preference(t, u) ==
    2 * t.impact + t.urgency - t.effort
    + (IF Given(u) /\ t.assignee = u THEN 5 ELSE 0)
    + (IF t.assignee \in {NONE, ""} THEN 2 ELSE 0)

\* the candidates: the backlog tasks, or the blocked ones when there are none
Candidates(coll) ==
    IF WithStatus(coll, "backlog") # {}
    THEN WithStatus(coll, "backlog") ELSE WithStatus(coll, "blocked")

\* C3: the task next_task returns has the greatest preference among the
\* candidates; no candidate gets both bonuses; with backlog tasks A (score
\* 10, unassigned) and B (score 10, held by u) alone, caller u gets B.
C3_MaxPreference ==
    [][Returned(last') =>
        \A i \in {PlaceOf(tasks, last'.task[1])} :
        \A cand \in {Candidates(tasks)} :
            LET u == last'.user_email
            IN /\ i \in cand
               /\ \A j \in cand :
                     Preference(tasks[i], u) >= Preference(tasks[j], u)
               /\ \A j \in cand :
                     Preference(tasks[j], u) <= score_task(tasks[j]) + 5
               /\ (/\ u = "u"
                   /\ \A j \in cand : tasks[j].title \in {"A", "B"}
                   /\ \E j \in cand : tasks[j].title = "B")
                  => last'.task[1].title = "B"
    ]_vars

\* caller u got B (preference 15) while A (preference 12) and C, of a
\* higher score (12, preference 12), stayed in the backlog
C3_Witness ==
    /\ Returned(last) /\ last.user_email = "u"
    /\ last.task[1].title = "B" /\ last.task[1].score = 10
    /\ \E i, j \in WithStatus(tasks, "backlog") :
          /\ tasks[i].title = "A" /\ tasks[i].assignee = NONE
          /\ tasks[j].title = "C" /\ score_task(tasks[j]) = 12

\* C4: next_task without a caller identity changes no task and no message.
C4_NoCallerNoWrite ==
    [][(last'.op = "next_task" /\ ~Given(last'.user_email)) =>
        tasks' = tasks /\ messages' = messages]_vars

\* a call without identity returned an unassigned backlog task, which is
\* still unassigned and in the backlog, and the stored conversation is there
C4_Witness ==
    /\ Returned(last) /\ last.user_email = NONE
    /\ last.task[1].status = "backlog" /\ last.task[1].assignee = NONE
    /\ \E i \in WithStatus(tasks, "backlog") :
          to_str_id(tasks[i]["_id"]) = last.task[1].id
    /\ messages # <<>>

\* C15: when no backlog task is stored and next_task returns a blocked
\* task, it writes nothing, whether or not a caller identity is given: the
\* task keeps the status blocked and the assignee it had, and the response
\* shows it with both.
C15_BlockedNotClaimed ==
    [][(Returned(last') /\ WithStatus(tasks, "backlog") = {}) =>
        \A i \in {PlaceOf(tasks, last'.task[1])} :
            /\ tasks[i].status = "blocked"
            /\ tasks' = tasks /\ messages' = messages
            /\ last'.task[1].status = "blocked"
            /\ last'.task[1].assignee = tasks[i].assignee
    ]_vars

\* a caller with an identity was returned a blocked task of no assignee
C15_Witness ==
    /\ Returned(last) /\ last.user_email = "u"
    /\ last.task[1].status = "blocked" /\ last.task[1].assignee = ""
    /\ \E i \in 1..Len(tasks) :
          tasks[i].status = "blocked" /\ tasks[i].assignee = ""

----------------------------------------------------------------------------
(* SpecStatus: creating tasks and setting their status *)

CreateStatusTask ==
    \E raw \in RawStatusTasks : create_task(raw, MaxStatusTasks)

UpdateTaskStatus ==
    \E task_id \in TaskIds, status \in NewStatuses :
        update_task_status(task_id, status)

NextStatus == CreateStatusTask \/ UpdateTaskStatus

SpecStatus == Init /\ [][NextStatus]_vars

----------------------------------------------------------------------------
(* Properties of update_task_status, under SpecStatus *)

HexDigits == {"0", "1", "2", "3", "4", "5", "6", "7", "8", "9",
              "a", "b", "c", "d", "e", "f", "A", "B", "C", "D", "E", "F"}

\* a task id that is no identity reference: not 24 hexadecimal digits
Malformed(s) == Len(s) # 24 \/ \E i \in 1..Len(s) : s[i] \notin HexDigits

\* the stored tasks a well-formed task id refers to, in either case of its
\* digits
Referred(coll, s) ==
    LET upper == UpperId(s)
    IN {i \in 1..Len(coll) : UpperId(to_str_id(coll[i]["_id"])) = upper}

\* C5: update_task_status with a malformed task id answers 400 "Invalid task
\* id", with a well-formed id of no stored task 404 "Task not found"; in
\* both cases no task and no message changes.
C5_BadIdNoWrite ==
    [][last'.op = "update_task_status" =>
        IF Malformed(last'.task_id)
        THEN /\ last'.code = 400 /\ last'.detail = "Invalid task id"
             /\ tasks' = tasks /\ messages' = messages
        ELSE Referred(tasks, last'.task_id) = {} =>
                /\ last'.code = 404 /\ last'.detail = "Task not found"
                /\ tasks' = tasks /\ messages' = messages
    ]_vars

\* a well-formed id of no stored task was answered 404 while tasks and a
\* conversation were stored
C5_Witness ==
    /\ last.op = "update_task_status" /\ last.code = 404
    /\ ~Malformed(last.task_id)
    /\ Len(tasks) = MaxStatusTasks /\ messages # <<>>

\* C6: a successful update_task_status overwrites the status of the task
\* with that id and nothing else: its other fields, every other task and
\* every message stay as they were.
C6_StatusOnly ==
    [][(last'.op = "update_task_status" /\ last'.code = 200) =>
        \A ref \in {Referred(tasks, last'.task_id)} :
            /\ Cardinality(ref) = 1
            /\ Len(tasks') = Len(tasks)
            /\ messages' = messages
            /\ \A i \in 1..Len(tasks) :
                  IF i \in ref
                  THEN /\ tasks'[i].status = last'.status
                       /\ DOMAIN tasks'[i] = DOMAIN tasks[i]
                       /\ \A k \in DOMAIN tasks[i] \ {"status"} :
                             tasks'[i][k] = tasks[i][k]
                  ELSE tasks'[i] = tasks[i]
    ]_vars

\* the status of one of two tasks was set, through an id spelt in upper
\* case, to a status the other task does not have
C6_Witness ==
    /\ last.op = "update_task_status" /\ last.code = 200
    /\ last.task_id = UpperId(to_str_id(FirstId + 1))
    /\ Len(tasks) = 2 /\ messages # <<>>
    /\ tasks[2].status = last.status /\ tasks[1].status # last.status
    /\ tasks[2].assignee = "v" /\ tasks[2].domain = NONE

\* C7: every stored task has one of the four statuses and impact, effort
\* and urgency in 1..10.
C7_TaskInvariant ==
    \A i \in 1..Len(tasks) :
        /\ tasks[i].status \in {"backlog", "in_progress", "done", "blocked"}
        /\ tasks[i].impact \in 1..10
        /\ tasks[i].effort \in 1..10
        /\ tasks[i].urgency \in 1..10

----------------------------------------------------------------------------
(* SpecChat: conversations over a growing task collection *)

InitChat ==
    /\ tasks = <<>>
    /\ messages = <<>>
    /\ last = [op |-> "init"]
    /\ calls = <<>>

CreateChatTask == \E raw \in RawChatTasks : create_task(raw, MaxChatTasks)

CreateMessage == \E raw \in RawMessages : create_message(raw)

NextChat == CreateChatTask \/ CreateMessage

SpecChat == InitChat /\ [][NextChat]_vars

----------------------------------------------------------------------------
(* Properties of create_message, under SpecChat *)

Submitted(l) == l.op = "create_message"

\* C8: a create_message with sender user appends exactly two messages: the
\* message as submitted, then one message of sender ai with the user_email
\* and the topic stored on the submitted message.
C8_ReplySameThread ==
    [][(Submitted(last') /\ last'.payload.sender = "user") =>
        /\ Len(messages') = Len(messages) + 2
        /\ SubSeq(messages', 1, Len(messages)) = messages
        /\ LET p == last'.payload
               um == messages'[Len(messages) + 1]
               am == messages'[Len(messages) + 2]
           IN /\ um.sender = "user" /\ um.text = p.text
              /\ \A k \in DOMAIN p : um[k] = p[k]
              /\ am.sender = "ai"
              /\ am.user_email = um.user_email
              /\ am.topic = um.topic
    ]_vars

\* C9: a create_message whose sender is not user appends the submitted
\* message and nothing else.
C9_NoReplyToAi ==
    [][(Submitted(last') /\ last'.payload.sender # "user") =>
        /\ Len(messages') = Len(messages) + 1
        /\ SubSeq(messages', 1, Len(messages)) = messages
        /\ messages'[Len(messages')].sender = last'.payload.sender
        /\ messages'[Len(messages')].text = last'.payload.text
    ]_vars

\* the bullet lines of a reply: between the first line and the last two
BulletsOf(text) == SubSeq(text, 2, Len(text) - 2)

Score(t) == 2 * t.impact + t.urgency - t.effort

Min(a, b) == IF a < b THEN a ELSE b

\* bullets list min(3, n) of the tasks, each once, by title, score and
\* domain, in non-increasing order of score, and no task left out has a
\* greater score than a listed one; unset is what is shown for a task that
\* has no domain
RanksTop(coll, bullets, unset) ==
    /\ Len(bullets) = Min(3, Len(coll))
    /\ \E pick \in [1..Len(bullets) -> 1..Len(coll)] :
          /\ \A a, b \in 1..Len(bullets) : pick[a] = pick[b] => a = b
          /\ \A a \in 1..Len(bullets) :
                /\ bullets[a][2] = coll[pick[a]].title
                /\ bullets[a][4] = Score(coll[pick[a]])
                /\ bullets[a][6] = (IF coll[pick[a]].domain = NONE
                                    THEN unset ELSE coll[pick[a]].domain)
          /\ \A a, b \in 1..Len(bullets) :
                a < b => bullets[a][4] >= bullets[b][4]
          /\ \A j \in 1..Len(coll) :
                (\A a \in 1..Len(bullets) : pick[a] # j) =>
                    \A a \in 1..Len(bullets) : Score(coll[j]) <= bullets[a][4]

\* C10: with n >= 1 tasks stored, the reply lists min(3, n) of them, one
\* bullet each, in non-increasing order of score, none left out having a
\* greater score than a listed one; each bullet shows the title, the score
\* and the domain of its task, general if the task has no domain.
C10_ReplyBullets ==
    [][(Submitted(last') /\ Len(tasks) >= 1) =>
        RanksTop(tasks, BulletsOf(messages'[Len(messages')].text), "general")
    ]_vars

\* what holds of C10: the same, a task without domain shown as "None"
ReplyBulletsAsPrinted ==
    [][(Submitted(last') /\ Len(tasks) >= 1) =>
        RanksTop(tasks, BulletsOf(messages'[Len(messages')].text), "None")
    ]_vars

\* the sentence of a reply that has no task to list
FallbackSentence ==
    "Ich sehe noch keine Aufgaben. Erstelle 3-5 klare, wirkungsstarke Tasks mit Impact, Effort und Urgency - dann priorisiere ich sie automatisch."

\* a reply of the bulleted kind: the introduction, one bullet line or more,
\* an empty line and the closing sentence
Bulleted(text) ==
    /\ Len(text) >= 4
    /\ text[1] = "Basierend auf deinem aktuellen Backlog wuerde ich diese Schritte priorisieren:"
    /\ \A i \in 2..(Len(text) - 2) : text[i][1] = "- "
    /\ text[Len(text) - 1] = ""
    /\ text[Len(text)] = "Nutze den Button 'Ich bin frei', um dir direkt den naechsten Schritt zuzuweisen."

\* C11: the text of the reply create_message stores is the fallback sentence
\* if and only if no task is stored when the reply is composed; with one
\* task or more it is the introduction, the bullets and the closing.
C11_FallbackIffNoTasks ==
    [][Submitted(last') =>
        \A am \in {messages'[Len(messages')]} :
            /\ am.sender = "ai"
            /\ (am.text = <<FallbackSentence>>) <=> (Len(tasks) = 0)
            /\ Len(tasks) >= 1 => Bulleted(am.text)
    ]_vars

\* a reply with the fallback sentence was stored while no task was
C11_Witness ==
    /\ Submitted(last) /\ tasks = <<>>
    /\ messages[Len(messages)].text = <<FallbackSentence>>

----------------------------------------------------------------------------
(* SpecScore: score_task applied to one task record *)

ScoreFields == {"impact", "effort", "urgency"}

\* what a task record holds besides the three fields
ScoreOthers ==
    {[title |-> "A"],
     [title |-> "B", description |-> NONE, domain |-> "ops",
      status |-> "done", assignee |-> "u"]}

\* task records: each of the three fields absent or a grade of 1 to 10
ScoreInputs ==
    UNION {UNION {{[k \in S \cup DOMAIN other |->
                        IF k \in S THEN vals[k] ELSE other[k]] :
                    vals \in [S -> 1..10]} :
                  S \in SUBSET ScoreFields} :
           other \in ScoreOthers}

InitScore ==
    /\ tasks \in {<<>>, create_document(<<>>, TaskDump([title |-> "A"]))}
    /\ messages = <<>>
    /\ calls = <<>>
    /\ last \in {[op |-> "input", t |-> t] : t \in ScoreInputs}

ScoreTask ==
    /\ last.op = "input"
    /\ last' = [op |-> "score_task", t |-> last.t,
                score |-> score_task(last.t)]
    /\ UNCHANGED <<tasks, messages, calls>>

NextScore == ScoreTask

SpecScore == InitScore /\ [][NextScore]_vars

\* a field of a task record, or the value that replaces it when absent
OrElse(t, k, d) == IF k \in DOMAIN t THEN t[k] ELSE d

\* C12: the score of a task whose impact, effort and urgency are 1 to 10 is
\* 2 * impact + urgency - effort, with 5, 3 and 5 for an absent impact,
\* effort and urgency; it is the score of the three fields alone, and
\* computing it changes neither the record nor the store.
C12_ScoreFormula ==
    [][last'.op = "score_task" =>
        \A t \in {last'.t} :
            /\ last'.score = 2 * OrElse(t, "impact", 5)
                                + OrElse(t, "urgency", 5)
                                - OrElse(t, "effort", 3)
            /\ last'.score =
                  score_task([k \in DOMAIN t \cap ScoreFields |-> t[k]])
            /\ t = last.t
            /\ tasks' = tasks /\ messages' = messages
    ]_vars

\* impact 8, urgency 9 and effort 2 were scored 23
C12_Witness ==
    /\ last.op = "score_task"
    /\ ScoreFields \subseteq DOMAIN last.t
    /\ last.t.impact = 8 /\ last.t.urgency = 9 /\ last.t.effort = 2
    /\ last.score = 23

----------------------------------------------------------------------------
(* SpecList: listings of a growing task collection *)

MaxListTasks == 3

\* payloads of create_task: A scores 12, B and C both 14
RawListTasks ==
    {[title |-> "A"],
     [title |-> "B", impact |-> 6],
     [title |-> "C", urgency |-> 7, status |-> "done"]}

\* the status parameter of list_tasks: absent, empty, statuses of stored
\* tasks, a status of none
ListFilters == {NONE, "", "backlog", "done", "archived"}

InitList ==
    /\ tasks = <<>>
    /\ messages = <<>>
    /\ last = [op |-> "init"]
    /\ calls = <<>>

CreateListTask == \E raw \in RawListTasks : create_task(raw, MaxListTasks)

ListTasks == \E status \in ListFilters : list_tasks(status)

NextList == CreateListTask \/ ListTasks

SpecList == InitList /\ [][NextList]_vars

----------------------------------------------------------------------------
(* Properties of list_tasks, under SpecList *)

Listed(l) == l.op = "list_tasks"

\* the stored tasks a listing with this status parameter is to return
Wanted(coll, status) ==
    IF Given(status) THEN WithStatus(coll, status) ELSE 1..Len(coll)

\* C13: list_tasks returns exactly the stored tasks of the status asked
\* for, all of them when none is asked for, each once, with the fields it
\* has in the store and its score, in non-increasing order of score, and
\* it writes nothing.
C13_ListRanked ==
    [][Listed(last') =>
        \A items \in {last'.items} :
            /\ Len(items) = Cardinality(Wanted(tasks, last'.status))
            /\ {ObjectId(items[a].id) : a \in 1..Len(items)}
                  = {tasks[i]["_id"] : i \in Wanted(tasks, last'.status)}
            /\ \A a \in 1..Len(items) :
                  \A i \in {PlaceOf(tasks, items[a])} :
                     /\ items[a].score = Score(tasks[i])
                     /\ DOMAIN items[a]
                          = (DOMAIN tasks[i] \ {"_id"}) \cup {"id", "score"}
                     /\ \A k \in DOMAIN tasks[i] \ {"_id"} :
                            items[a][k] = tasks[i][k]
            /\ \A a, b \in 1..Len(items) :
                  a < b => items[a].score >= items[b].score
            /\ tasks' = tasks /\ messages' = messages
    ]_vars

\* a listing by status left out a stored task of another status and
\* returned two tasks, the greater score first
C13_Witness ==
    /\ Listed(last) /\ last.status = "backlog"
    /\ Len(last.items) = 2 /\ Len(tasks) = 3
    /\ last.items[1].score > last.items[2].score

\* C14: two list_tasks calls with the same status parameter and no write
\* between them return the same tasks in the same order, tasks of equal
\* score included, whatever order the store reads in.
C14_ListIdempotent ==
    [][(Listed(last) /\ Listed(last') /\ last'.status = last.status
            /\ tasks' = tasks) =>
        last'.items = last.items
    ]_vars

\* what holds of C14: the two listings hold the same tasks and the same
\* scores place by place; tasks of equal score may have changed places
ListSameUpToTies ==
    [][(Listed(last) /\ Listed(last') /\ last'.status = last.status
            /\ tasks' = tasks) =>
        /\ Len(last'.items) = Len(last.items)
        /\ {last'.items[a] : a \in 1..Len(last'.items)}
              = {last.items[a] : a \in 1..Len(last.items)}
        /\ \A a \in 1..Len(last.items) :
              last'.items[a].score = last.items[a].score
    ]_vars

----------------------------------------------------------------------------
(* SpecRace: next_task requests running concurrently with each other and *)
(* with update_task_status, over a growing task collection               *)

MaxRaceTasks == 1
MaxRaceCalls == 2

\* payloads of create_task: a backlog task and a blocked task
RawRaceTasks ==
    {[title |-> "A"],
     [title |-> "C", status |-> "blocked"]}

RaceCallers == {"u", "v"}

\* update_task_status requests: the first task stored, finished or put back
RaceIds == {to_str_id(FirstId)}

RaceStatuses == {"done", "backlog"}

InitRace ==
    /\ tasks = <<>>
    /\ messages = <<>>
    /\ last = [op |-> "init"]
    /\ calls = <<>>

CreateRaceTask == \E raw \in RawRaceTasks : create_task(raw, MaxRaceTasks)

ReadBacklog ==
    \E user_email \in RaceCallers : next_task_backlog(user_email, MaxRaceCalls)

ReadBlocked == \E c \in 1..Len(calls) : next_task_blocked(c)

ClaimBest == \E c \in 1..Len(calls) : next_task_claim(c)

RaceStatus ==
    \E task_id \in RaceIds, status \in RaceStatuses :
        update_task_status(task_id, status)

NextRace ==
    CreateRaceTask \/ ReadBacklog \/ ReadBlocked \/ ClaimBest \/ RaceStatus

SpecRace == InitRace /\ [][NextRace]_vars

----------------------------------------------------------------------------
(* Properties of concurrent next_task requests, under SpecRace *)

\* the request has issued its update
Wrote(cs, c) == cs[c].writes > 0

\* the request was answered with a task
Answered(cs, c) == cs[c].pc = "done" /\ cs[c].resp.task # <<>>

\* the task of the request's response
TaskOf(cs, c) == cs[c].resp.task[1]

\* the requests that have issued an update of the task of this identity
Writers(cs, id) ==
    {w \in 1..Len(cs) : Wrote(cs, w) /\ TaskOf(cs, w).id = id}

\* the one of them whose update came last
LastWriter(cs, id) ==
    CHOOSE w \in Writers(cs, id) :
        \A x \in Writers(cs, id) : cs[x].stamp <= cs[w].stamp

\* C17: two next_task requests of different callers can both claim the
\* same task; then each was answered that the task is in progress and its
\* own, and the stored assignee is the caller whose update came last.
C17_DoubleClaim ==
    \A c, d \in 1..Len(calls) :
        (/\ c # d /\ Wrote(calls, c) /\ Wrote(calls, d)
         /\ TaskOf(calls, c).id = TaskOf(calls, d).id
         /\ calls[c].user_email # calls[d].user_email) =>
            /\ TaskOf(calls, c).status = "in_progress"
            /\ TaskOf(calls, c).assignee = calls[c].user_email
            /\ TaskOf(calls, d).status = "in_progress"
            /\ TaskOf(calls, d).assignee = calls[d].user_email
            /\ tasks[PlaceOf(tasks, TaskOf(calls, c))].assignee
                  = calls[LastWriter(calls, TaskOf(calls, c).id)].user_email

\* two requests of different callers have claimed the one task, written by
\* no update_task_status since it was stored: both read it as a backlog
\* task before either wrote, and the second to write holds it
C17_Witness ==
    /\ last.op = "create_task" /\ Len(tasks) = 1
    /\ \E c, d \in 1..Len(calls) :
          /\ Wrote(calls, c) /\ Wrote(calls, d)
          /\ calls[c].stamp < calls[d].stamp
          /\ TaskOf(calls, c).id = TaskOf(calls, d).id
          /\ calls[c].user_email # calls[d].user_email
          /\ TaskOf(calls, c).assignee = calls[c].user_email
          /\ tasks[1].assignee = calls[d].user_email

\* C18: next_task claims backlog tasks only: in every interleaving, the
\* task a request's update writes is stored with status backlog just before
\* the update, and a task stored as done or blocked changes its status only
\* by update_task_status.
C18_ClaimsBacklogOnly ==
    [][/\ \A c \in 1..Len(calls) :
            (Len(calls') = Len(calls) /\ calls'[c].writes > calls[c].writes) =>
                tasks[PlaceOf(tasks, TaskOf(calls', c))].status = "backlog"
       /\ \A i \in 1..Len(tasks) :
            (tasks[i].status \in {"done", "blocked"}
                /\ tasks'[i].status # tasks[i].status) =>
                    /\ calls' = calls
                    /\ last'.op = "update_task_status" /\ last'.code = 200
    ]_vars

\* what holds of C18: the task a request's update writes had the status
\* backlog when the request read it
ClaimsWhatWasBacklog ==
    [][\A c \in 1..Len(calls) :
            (Len(calls') = Len(calls) /\ calls'[c].writes > calls[c].writes) =>
                \E k \in 1..Len(calls[c].pool) :
                    /\ calls[c].pool[k]["_id"] = ObjectId(TaskOf(calls', c).id)
                    /\ calls[c].pool[k].status = "backlog"
    ]_vars

\* the document a request read that its response is about
ReadAs(cs, c) ==
    cs[c].pool[CHOOSE k \in 1..Len(cs[c].pool) :
                    cs[c].pool[k]["_id"] = ObjectId(TaskOf(cs, c).id)]

\* C19: a next_task request issues at most one update and is answered with
\* it; answered for a caller with a task it read as a backlog task, it has
\* issued exactly one, and the response shows the task in progress and
\* assigned to the caller, whatever the store holds by then.
C19_OneWriteNoRetry ==
    \A c \in 1..Len(calls) :
        /\ calls[c].writes <= 1
        /\ Wrote(calls, c) => calls[c].pc = "done"
        /\ (Answered(calls, c) /\ Given(calls[c].user_email)
                /\ ReadAs(calls, c).status = "backlog") =>
              /\ calls[c].writes = 1
              /\ TaskOf(calls, c).status = "in_progress"
              /\ TaskOf(calls, c).assignee = calls[c].user_email

\* a request was answered that the task is its caller's and in progress
\* while the store holds the task as done
C19_Witness ==
    \E c \in 1..Len(calls) :
        /\ Answered(calls, c) /\ Wrote(calls, c)
        /\ TaskOf(calls, c).status = "in_progress"
        /\ TaskOf(calls, c).assignee = calls[c].user_email
        /\ tasks[PlaceOf(tasks, TaskOf(calls, c))].status = "done"

----------------------------------------------------------------------------
(* SpecDrain: tasks are stored, then next_task requests of callers with an *)
(* identity follow one another, each answered before the next arrives     *)

MaxDrainTasks == 2
MaxDrainCalls == 3

\* payloads of create_task: two backlog tasks, B of the greater score, and
\* a blocked task
RawDrainTasks ==
    {[title |-> "A"],
     [title |-> "B", impact |-> 6],
     [title |-> "C", status |-> "blocked"]}

DrainCallers == {"u", "v"}

InitDrain ==
    /\ tasks = <<>>
    /\ messages = <<>>
    /\ last = [op |-> "init"]
    /\ calls = <<>>

CreateDrainTask ==
    /\ calls = <<>>
    /\ \E raw \in RawDrainTasks : create_task(raw, MaxDrainTasks)

DrainBacklog ==
    /\ \A c \in 1..Len(calls) : calls[c].pc = "done"
    /\ \E user_email \in DrainCallers :
          next_task_backlog(user_email, MaxDrainCalls)

NextDrain == CreateDrainTask \/ DrainBacklog \/ ReadBlocked \/ ClaimBest

SpecDrain == InitDrain /\ [][NextDrain]_vars

----------------------------------------------------------------------------
(* Properties of next_task requests one after another, under SpecDrain *)

\* the greatest preference in a pool
MaxPreference(pool, u) ==
    CHOOSE m \in {Preference(pool[k], u) : k \in 1..Len(pool)} :
        \A k \in 1..Len(pool) : Preference(pool[k], u) <= m

\* the first place in a pool, in the order the store returned it, of a
\* task of the greatest preference
FirstOfBest(pool, u) ==
    CHOOSE k \in 1..Len(pool) :
        /\ Preference(pool[k], u) = MaxPreference(pool, u)
        /\ \A j \in 1..(k - 1) : Preference(pool[j], u) < MaxPreference(pool, u)

\* C16: of the candidates that share the greatest preference, next_task
\* returns the one that comes first in the order the store returned the
\* pool.
C16_FirstOfEquals ==
    \A c \in 1..Len(calls) :
        Answered(calls, c) =>
            ObjectId(TaskOf(calls, c).id)
              = calls[c].pool[FirstOfBest(calls[c].pool, calls[c].user_email)]["_id"]

\* a request read two tasks of the same preference, the one stored later
\* first, and was answered with that one
C16_Witness ==
    \E c \in 1..Len(calls) :
        /\ Answered(calls, c) /\ Len(calls[c].pool) = 2
        /\ Preference(calls[c].pool[1], calls[c].user_email)
             = Preference(calls[c].pool[2], calls[c].user_email)
        /\ calls[c].pool[1]["_id"] > calls[c].pool[2]["_id"]
        /\ ObjectId(TaskOf(calls, c).id) = calls[c].pool[1]["_id"]

\* the request is answered in this step
AnsweredNow(c) ==
    /\ c <= Len(calls') /\ calls'[c].pc = "done"
    /\ (c > Len(calls) \/ calls[c].pc # "done")

\* the tasks earlier requests were answered with
ReturnedBefore(cs) ==
    {TaskOf(cs, d).id : d \in {d \in 1..Len(cs) : Answered(cs, d)}}

\* the requests answered so far
AnsweredCount(cs) == Cardinality({c \in 1..Len(cs) : cs[c].pc = "done"})

\* C20: with n backlog tasks stored and nothing but next_task requests of
\* callers with an identity, one after another: while a backlog task is
\* left, a request is answered with a backlog task no earlier request was
\* answered with, and one backlog task fewer is left; after k requests
\* min(k, n) tasks are claimed, so none is left after n; with none left, a
\* request is answered with a blocked task or with no task and the message
\* "No tasks available. Create one to get started.", and writes nothing.
C20_BacklogDrains ==
    [][\A c \in 1..Len(calls') :
          AnsweredNow(c) =>
            \A b \in {Cardinality(WithStatus(tasks, "backlog"))} :
              /\ b > 0 =>
                    /\ Answered(calls', c)
                    /\ TaskOf(calls', c).id \notin ReturnedBefore(calls)
                    /\ tasks[PlaceOf(tasks, TaskOf(calls', c))].status = "backlog"
                    /\ Cardinality(WithStatus(tasks', "backlog")) = b - 1
              /\ b = 0 =>
                    /\ tasks' = tasks
                    /\ IF calls'[c].resp.task = <<>>
                       THEN calls'[c].resp.message
                              = "No tasks available. Create one to get started."
                       ELSE TaskOf(calls', c).status = "blocked"
              /\ Cardinality(WithStatus(tasks', "in_progress"))
                    = Min(AnsweredCount(calls'),
                          Cardinality(WithStatus(tasks', "backlog"))
                            + Cardinality(WithStatus(tasks', "in_progress")))
    ]_vars

\* two backlog tasks were stored; the first two requests were answered
\* with one each, the third with no task, and no backlog task is left
C20_Witness ==
    /\ Len(tasks) = 2 /\ Len(calls) = 3
    /\ \A c \in 1..3 : calls[c].pc = "done"
    /\ Answered(calls, 1) /\ Answered(calls, 2)
    /\ TaskOf(calls, 1).id # TaskOf(calls, 2).id
    /\ calls[3].resp.task = <<>>
    /\ WithStatus(tasks, "backlog") = {}
    /\ WithStatus(tasks, "in_progress") = {1, 2}

====
